---- MODULE Spec2Model ----
(***************************************************************************)
(* Trend scoring and reconciliation of src/pages/pages/trends.tsx:         *)
(* computeMargin, generatePriceLadder and the fetchTrends pass (score the  *)
(* batch, upsert it into the Supabase table "trends" keyed on name, read   *)
(* the table back ordered by profitScore, hand the result to setTrends).   *)
(*                                                                         *)
(* Money is counted in whole cents, so the source's dollar amounts are     *)
(* integers here and a quotient is kept as numerator and denominator.      *)
(* Math.round rounds half up; the source rounds binary floating-point      *)
(* products, which land an exact half on either side, so at an exact half  *)
(* MathRound admits both neighbours (checked against IEEE doubles: every   *)
(* result of the source lies in the admitted set).                         *)
(***************************************************************************)
EXTENDS Integers, Sequences, FiniteSets, TLC

VARIABLES
    store,        \* rows of the Supabase table "trends"
    pc,           \* per client: where its fetchTrends call stands
    enriched,     \* per client: the scored batch of the running pass
    upsertError,  \* per client: the upsert response carried an error
    selectError,  \* per client: the select response carried an error
    trends,       \* per client: React state set by setTrends
    loading,      \* per client: React state set by setLoading
    now,          \* the wall clock read by new Date()
    lastApplied,  \* history: per name, the row most recently written by an applied upsert
    arg,          \* the RawSignal handed to the scorer (scorer specification)
    res           \* the scorer's result for arg, or NoResult

vars == <<store, pc, enriched, upsertError, selectError, trends, loading, now,
          lastApplied, arg, res>>

passVars == <<store, pc, enriched, upsertError, selectError, trends, loading, now,
              lastApplied>>

(***************************************************************************)
(* Bounds of the model.                                                    *)
(***************************************************************************)
MaxTime == 1
MaxCost == 12
MaxVelocity == 10

Clients == {"c1", "c2"}
BatchSizes == {1, 2}

(***************************************************************************)
(* Program constants.                                                      *)
(***************************************************************************)
ScoreCap == 100

\* JavaScript number values: a finite number, NaN, or (after JSON) null.
Num(k) == [tag |-> "num", val |-> k]
NaN == [tag |-> "NaN", val |-> 0]
Null == [tag |-> "null", val |-> 0]

\* A quotient num/den as the source's division leaves it: a finite number when
\* den # 0, NaN for 0/0 (a price of 0 has base 0, so the dividend is 0 too).
Quot(n, d) == [tag |-> IF d = 0 THEN "NaN" ELSE "num", num |-> n, den |-> d]
NullQuot == [tag |-> "null", num |-> 0, den |-> 0]

\* Math.round(num/den), den # 0: the admitted results (both at an exact half).
MathRound(num, den) ==
    LET n == IF den < 0 THEN -num ELSE num
        d == IF den < 0 THEN -den ELSE den
        f == n \div d
        r == n % d
    IN  IF 2 * r < d THEN {f}
        ELSE IF 2 * r > d THEN {f + 1}
        ELSE {f, f + 1}

\* computeMargin(price, cogs, fees, shipping), as a quotient times 100.
computeMargin(price, cogs, fees, shipping) ==
    Quot((price - cogs - fees - shipping) * 100, price)

\* generatePriceLadder with shipping left out of the base.
generatePriceLadderNoShipping(cogs, fees, shipping) ==
    LET base == cogs + fees
    IN  { <<p1, p2, p3>> : p1 \in MathRound(base * 13, 10),
                           p2 \in MathRound(base * 16, 10),
                           p3 \in MathRound(base * 20, 10) }

\* generatePriceLadder(cogs, fees, shipping): the admitted ladders, in cents.
generatePriceLadder(cogs, fees, shipping) ==
    LET base == cogs + fees + shipping
    IN  { <<p1, p2, p3>> : p1 \in MathRound(base * 13, 10),
                           p2 \in MathRound(base * 16, 10),
                           p3 \in MathRound(base * 20, 10) }

\* Math.min(100, x) on a JavaScript number: NaN stays NaN.
MathMin(cap, x) == IF x.tag = "num" THEN Num(IF x.val < cap THEN x.val ELSE cap) ELSE x

\* Math.min(100, Math.round(velocity * 0.2 + margin * 2)): the admitted scores.
\* velocity/5 + 2 * margin.num/margin.den = (velocity*den + 10*num) / (5*den).
ProfitScore(velocity, margin) ==
    IF margin.den = 0
    THEN {NaN}
    ELSE { MathMin(ScoreCap, Num(s)) :
             s \in MathRound(velocity * margin.den + 10 * margin.num, 5 * margin.den) }

\* The record built for d at index idx with the ladder and score given.
Record(d, idx, clock, ladder, s) ==
    [ id |-> <<"mock", idx>>,
      name |-> d.name,
      platform |-> d.platform,
      velocity |-> d.velocity,
      cogs |-> d.cogs,
      fees |-> d.fees,
      shipping |-> d.shipping,
      profitScore |-> s,
      priceLadder |-> ladder,
      margin |-> computeMargin(ladder[1], d.cogs, d.fees, d.shipping),
      createdAt |-> clock ]

\* One element of mockData.map((d, idx) => ...): the admitted records for d at idx.
Enrich(d, idx, clock) ==
    UNION { { Record(d, idx, clock, ladder, s) :
                s \in ProfitScore(d.velocity,
                                  computeMargin(ladder[1], d.cogs, d.fees, d.shipping)) } :
            ladder \in generatePriceLadder(d.cogs, d.fees, d.shipping) }
(***************************************************************************)
(* Inputs.  The source scores the fixed mockData; the passes of the model  *)
(* also score small batches drawn from RawSignals, among them the records  *)
(* the ingestion contract excludes (an empty name, a negative cost, a name *)
(* repeated within the batch), since the source validates nothing.         *)
(***************************************************************************)
MockData ==
    << [name |-> "#LEDcollars", platform |-> "tiktok", velocity |-> 450,
        cogs |-> 250, fees |-> 80, shipping |-> 120],
       [name |-> "#tinyhats", platform |-> "etsy", velocity |-> 310,
        cogs |-> 180, fees |-> 60, shipping |-> 100],
       [name |-> "#AIstickers", platform |-> "gumroad", velocity |-> 280,
        cogs |-> 50, fees |-> 30, shipping |-> 20] >>

\* Names in ascending order.
NameOrder == <<"", "#AIstickers", "#LEDcollars", "#tinyhats">>
NameRank(n) == CHOOSE i \in DOMAIN NameOrder : NameOrder[i] = n
AllNames == {NameOrder[i] : i \in DOMAIN NameOrder}

Names == {"", "#LEDcollars"}
PlatformOf(n) == IF n = "#tinyhats" THEN "etsy" ELSE "tiktok"
Velocities == {0}
CogsValues == {-1, 0, 2}

RawSignals ==
    { [name |-> n, platform |-> PlatformOf(n), velocity |-> v,
       cogs |-> c, fees |-> 0, shipping |-> 0] :
      n \in Names, v \in Velocities, c \in CogsValues }

Batches ==
    {MockData} \cup UNION { [1..k -> RawSignals] : k \in BatchSizes }

\* The inputs of the scorer specification: valid RawSignals (costs and velocity >= 0).
ScorerVelocities == (0..MaxVelocity) \cup {280, 310, 450}
ScorerInputs ==
    { [name |-> "#LEDcollars", platform |-> "tiktok", velocity |-> v,
       cogs |-> c, fees |-> f, shipping |-> s] :
      v \in ScorerVelocities, c \in 0..MaxCost, f \in 0..MaxCost, s \in 0..MaxCost }

(***************************************************************************)
(* The pass: fetchTrends.                                                  *)
(***************************************************************************)
\* mockData.map(...): the admitted enriched arrays for a batch scored at clock.
EnrichedBatches(batch, clock) ==
    { e \in [DOMAIN batch -> UNION {Enrich(batch[i], i - 1, clock) : i \in DOMAIN batch}] :
        \A i \in DOMAIN batch : e[i] \in Enrich(batch[i], i - 1, clock) }

\* JSON.stringify of a record in the request body: NaN is written as null.
ToJSON(r) ==
    [r EXCEPT !.profitScore = IF @.tag = "NaN" THEN Null ELSE @,
              !.margin = IF @.tag = "NaN" THEN NullQuot ELSE @]

Body(rows) == [i \in DOMAIN rows |-> ToJSON(rows[i])]

HasDuplicateNames(rows) ==
    \E i, j \in DOMAIN rows : i # j /\ rows[i].name = rows[j].name

\* A plain insert: the conflict target is lost and every row is added.
UpsertRowsAppend(table, rows) == table \cup { rows[i] : i \in DOMAIN rows }

\* Only the first row of the array is written.
UpsertRowsFirstOnly(table, rows) ==
    { r \in table : rows[1].name # r.name } \cup { rows[1] }

\* upsert(rows, { onConflict: 'name' }): INSERT ... ON CONFLICT (name) DO UPDATE,
\* one statement for the whole array.
UpsertRows(table, rows) ==
    { r \in table : \A i \in DOMAIN rows : rows[i].name # r.name }
        \cup { rows[i] : i \in DOMAIN rows }

\* order('profitScore', { ascending: false }): a may precede b.  PostgreSQL puts
\* nulls first in a descending order and leaves equal keys in any order.
MayPrecede(a, b) ==
    \/ a.profitScore.tag = "null"
    \/ /\ a.profitScore.tag = "num"
       /\ b.profitScore.tag = "num"
       /\ a.profitScore.val >= b.profitScore.val

\* select('*').order(...): the admitted result arrays for a table.
Ranked(table) ==
    { d \in [1..Cardinality(table) -> table] :
        /\ \A i, j \in DOMAIN d : i # j => d[i] # d[j]
        /\ \A i, j \in DOMAIN d : i < j => MayPrecede(d[i], d[j]) }

Range(f) == {f[i] : i \in DOMAIN f}
BatchNames(rows) == {rows[i].name : i \in DOMAIN rows}
LastNamed(rows, n) ==
    rows[CHOOSE i \in DOMAIN rows :
            /\ rows[i].name = n
            /\ \A j \in DOMAIN rows : rows[j].name = n => j <= i]

Init ==
    /\ store = {}
    /\ pc = [c \in Clients |-> "mount"]
    /\ enriched = [c \in Clients |-> <<>>]
    /\ upsertError = [c \in Clients |-> FALSE]
    /\ selectError = [c \in Clients |-> FALSE]
    /\ trends = [c \in Clients |-> <<>>]
    /\ loading = [c \in Clients |-> TRUE]
    /\ now = 0
    /\ lastApplied = [n \in AllNames |-> {}]
    /\ arg = MockData[1]
    /\ res = {}

\* useEffect -> fetchTrends up to its first await: setLoading(true), score the
\* batch, send the upsert.
Start(c, batch) ==
    /\ pc[c] = "mount"
    /\ \E e \in EnrichedBatches(batch, now) : enriched' = [enriched EXCEPT ![c] = e]
    /\ loading' = [loading EXCEPT ![c] = TRUE]
    /\ upsertError' = [upsertError EXCEPT ![c] = FALSE]
    /\ selectError' = [selectError EXCEPT ![c] = FALSE]
    /\ pc' = [pc EXCEPT ![c] = "upsert"]
    /\ UNCHANGED <<store, trends, now, lastApplied, arg, res>>

\* The upsert is applied; its result is discarded and the select is sent.
\* PostgreSQL refuses a statement that would update one row twice, so a batch
\* that repeats a name is never applied.
Upsert(c) ==
    /\ pc[c] = "upsert"
    /\ ~HasDuplicateNames(enriched[c])
    /\ store' = UpsertRows(store, Body(enriched[c]))
    /\ lastApplied' = [n \in AllNames |->
                         IF n \in BatchNames(enriched[c])
                         THEN {ToJSON(LastNamed(enriched[c], n))}
                         ELSE lastApplied[n]]
    /\ pc' = [pc EXCEPT ![c] = "select"]
    /\ UNCHANGED <<enriched, upsertError, selectError, trends, loading, now,
                   arg, res>>

\* The upsert returns { error }: nothing is written; the source does not look
\* at the result and goes on to the select.
UpsertFails(c) ==
    /\ pc[c] = "upsert"
    /\ upsertError' = [upsertError EXCEPT ![c] = TRUE]
    /\ pc' = [pc EXCEPT ![c] = "select"]
    /\ UNCHANGED <<store, enriched, selectError, trends, loading, now, lastApplied, arg, res>>

\* The select returns the table in rank order: setTrends(data), setLoading(false).
Select(c) ==
    /\ pc[c] = "select"
    /\ \E data \in Ranked(store) : trends' = [trends EXCEPT ![c] = data]
    /\ loading' = [loading EXCEPT ![c] = FALSE]
    /\ pc' = [pc EXCEPT ![c] = "done"]
    /\ UNCHANGED <<store, enriched, upsertError, selectError, now, lastApplied, arg, res>>

\* The select returns { data: null, error }: setTrends(data || []), setLoading(false).
SelectFails(c) ==
    /\ pc[c] = "select"
    /\ selectError' = [selectError EXCEPT ![c] = TRUE]
    /\ trends' = [trends EXCEPT ![c] = <<>>]
    /\ loading' = [loading EXCEPT ![c] = FALSE]
    /\ pc' = [pc EXCEPT ![c] = "done"]
    /\ UNCHANGED <<store, enriched, upsertError, now, lastApplied, arg, res>>

\* Time passes.
Tick ==
    /\ now < MaxTime
    /\ now' = now + 1
    /\ UNCHANGED <<store, pc, enriched, upsertError, selectError, trends, loading,
                   lastApplied, arg, res>>

Next ==
    \/ \E c \in Clients, batch \in Batches : Start(c, batch)
    \/ \E c \in Clients : Upsert(c)
    \/ \E c \in Clients : UpsertFails(c)
    \/ \E c \in Clients : Select(c)
    \/ \E c \in Clients : SelectFails(c)
    \/ Tick

Spec == Init /\ [][Next]_vars

(***************************************************************************)
(* The scorer alone, on valid RawSignals.                                  *)
(***************************************************************************)
ScorerInit ==
    /\ store = {}
    /\ pc = [c \in Clients |-> "mount"]
    /\ enriched = [c \in Clients |-> <<>>]
    /\ upsertError = [c \in Clients |-> FALSE]
    /\ selectError = [c \in Clients |-> FALSE]
    /\ trends = [c \in Clients |-> <<>>]
    /\ loading = [c \in Clients |-> TRUE]
    /\ now = 0
    /\ lastApplied = [n \in AllNames |-> {}]
    /\ arg \in ScorerInputs
    /\ res = {}

\* The body of the map callback applied to arg.
ScoreSignal ==
    /\ res = {}
    /\ \E r \in Enrich(arg, 0, now) : res' = {r}
    /\ UNCHANGED <<passVars, arg>>

ScorerNext == ScoreSignal

ScorerSpec == ScorerInit /\ [][ScorerNext]_vars
(***************************************************************************)
(* Properties.                                                             *)
(***************************************************************************)
RowsNamed(table, n) == { r \in table : r.name = n }
OnePerName(table) == \A r1, r2 \in table : r1.name = r2.name => r1 = r2
Applied(c) == pc[c] \in {"select", "done"} /\ ~upsertError[c]
Base(r) == r.cogs + r.fees + r.shipping

C2_TotalOrder ==
    \A c \in Clients : \A i, j \in DOMAIN trends[c] :
        (/\ i < j
         /\ trends[c][i].profitScore.tag = "num"
         /\ trends[c][j].profitScore.tag = "num")
            => \/ trends[c][i].profitScore.val > trends[c][j].profitScore.val
               \/ /\ trends[c][i].profitScore.val = trends[c][j].profitScore.val
                  /\ NameRank(trends[c][i].name) < NameRank(trends[c][j].name)

\* C3: for a RawSignal with velocity and costs >= 0 (all costs zero included) the
\* profitScore is an integer in 0..100.
C3_ScoreInRange ==
    \A r \in res :
        /\ r.profitScore.tag = "num"
        /\ r.profitScore.val \in 0..ScoreCap

\* C4 (as stated): for costs >= 0 the ladder has 3 strictly increasing prices,
\* each at least cogs + fees + shipping.
C4_StrictlyIncreasing ==
    \A r \in res :
        /\ Len(r.priceLadder) = 3
        /\ r.priceLadder[1] < r.priceLadder[2]
        /\ r.priceLadder[2] < r.priceLadder[3]
        /\ \A k \in 1..3 : r.priceLadder[k] >= Base(r)

\* C4 (amended): for costs >= 0 the ladder has 3 prices in non-decreasing order,
\* each at least cogs + fees + shipping; it is strictly increasing exactly when
\* that sum is at least 3 cents.
C4_LadderOrdered ==
    \A r \in res :
        /\ Len(r.priceLadder) = 3
        /\ r.priceLadder[1] <= r.priceLadder[2]
        /\ r.priceLadder[2] <= r.priceLadder[3]
        /\ \A k \in 1..3 : r.priceLadder[k] >= Base(r)
        /\ (r.priceLadder[1] < r.priceLadder[2] /\ r.priceLadder[2] < r.priceLadder[3])
              <=> Base(r) >= 3

\* C4 witness: a ladder was generated for a positive base, all three cost
\* components positive, and it is strictly increasing.
C4_Witness ==
    \E r \in res :
        /\ r.cogs > 0 /\ r.fees > 0 /\ r.shipping > 0
        /\ r.priceLadder[1] < r.priceLadder[2]
        /\ r.priceLadder[2] < r.priceLadder[3]

\* C5: no pass produces, persists or hands on a record whose margin or
\* profitScore is not a finite number.
C5_NoUndefinedMargin ==
    \A c \in Clients :
        \A r \in Range(enriched[c]) \cup store \cup Range(trends[c]) :
            r.margin.tag = "num" /\ r.profitScore.tag = "num"

\* C6: the collection only ever changes by one pass's whole batch at once, and a
\* ranked read returns the collection of one such state: the rows of a batch
\* are written in one step and none besides them, and what a select returns is
\* exactly the collection at the moment it is served.
C6_BatchAtomic ==
    [][ /\ store' # store =>
            \E c \in Clients :
                /\ pc[c] = "upsert" /\ pc'[c] = "select"
                /\ Range(Body(enriched[c])) \subseteq store'
                /\ store' \subseteq store \cup Range(Body(enriched[c]))
        /\ \A c \in Clients :
            (pc[c] = "select" /\ pc'[c] = "done" /\ ~selectError'[c])
                => Range(trends'[c]) = store ]_vars

\* C6 witness: a batch of two records is applied as a whole while another
\* client's read, served afterwards, has returned both of them.
C6_Witness ==
    \E c, d \in Clients :
        /\ c # d /\ Applied(c)
        /\ Cardinality(BatchNames(enriched[c])) >= 2
        /\ pc[d] = "done" /\ ~selectError[d]
        /\ Range(Body(enriched[c])) \subseteq Range(trends[d])

\* C7: the array a completed pass hands to setTrends holds a record for every
\* name of the pass's own batch, also when the upsert did not succeed.
C7_ReadYourWrites ==
    \A c \in Clients :
        pc[c] = "done" =>
            \A n \in BatchNames(enriched[c]) :
                \E j \in DOMAIN trends[c] : trends[c][j].name = n

\* C8: a pass whose upsert or select returned an error does not complete as a
\* success (loading cleared, a collection handed to setTrends).
C8_FailureSurfaced ==
    \A c \in Clients :
        (upsertError[c] \/ selectError[c]) => ~(pc[c] = "done" /\ ~loading[c])

\* C9: no record derived from a RawSignal with an empty name or a negative cost
\* component is ever written to the collection.
C9_InvalidNeverStored ==
    \A r \in store :
        r.name # "" /\ r.cogs >= 0 /\ r.fees >= 0 /\ r.shipping >= 0

\* C10: a pass leaves every stored record whose name is not in its batch in
\* place and unchanged, and the array it returns holds each of them.
C10_OthersKept ==
    [][ \A c \in Clients :
          /\ (pc[c] = "upsert" /\ pc'[c] = "select")
                => \A r \in store :
                     r.name \notin BatchNames(enriched[c]) => r \in store'
          /\ (pc[c] = "select" /\ pc'[c] = "done")
                => \A r \in store :
                     r.name \notin BatchNames(enriched[c])
                        => r \in store' /\ r \in Range(trends'[c]) ]_vars
====
